---- MODULE Spec2Model ----
(***************************************************************************)
(* Session / task orchestration of the movie-analyst backend.              *)
(*                                                                         *)
(* One asyncio event loop runs the HTTP handlers, the submit_agent_task    *)
(* coroutines, the detached agent tasks and their done callbacks.  The     *)
(* blocking database helpers run in worker threads                         *)
(* (anyio.to_thread.run_sync).  A step of the model is either one          *)
(* event-loop step (the code between two awaits of one coroutine) or one   *)
(* step of a worker thread.  A synchronous handler (DELETE /session/{id})  *)
(* keeps the loop busy between its statements: only worker threads can     *)
(* interleave with it.                                                     *)
(***************************************************************************)
EXTENDS Integers, Sequences, FiniteSets, TLC

\* The POST /chat requests of a behaviour.
Reqs == {1, 2}

\* Number of client-initiated control operations in a behaviour (cancel,
\* clear, delete, abandoned await, SSE disconnect).
MaxOps == 2

\* Session ids named by the clients.
SessionIds == {"s1", "s2"}

\* The column default of created_at is evaluated once, when the class body
\* is executed: every row of the process gets the same value.
ImportTime == 0

NoSession == "none"

VARIABLES
    chat_sessions,      \* table chat_sessions: the ids that have a row
    chat_messages,      \* table chat_messages: the rows, in insertion order
    deleted_rows,       \* rows removed by a DELETE statement of a handler
    _background_tasks,  \* session id -> list of tasks (a task is named by its request)
    req,                \* per POST /chat request: the handler and its submit_agent_task call
                        \* (after: the runs of the session that were active when the
                        \* request arrived, kept until its history is loaded)
    task,               \* per request: the asyncio.Task running _run_agent_task
    delete_pc,          \* position of the (synchronous) delete_session handler
    ops                 \* control operations issued so far

\* Components that are checked on their own, each under its own specification:
\* they share no state with the sessions and tasks above.
VARIABLES
    tmdb,               \* one call of _make_tmdb_request (services/tool.py)
    out,                \* the rendering of one finished run into the answer of POST /chat
    health,             \* one GET /health (api/main_app.py)
    llm,                \* one streaming model call (services/concentrate_llm.py)
    aws,                \* one AwaitableAsyncStream and its consumer
    val,                \* one POST /chat body on its way through request validation
    tool,               \* one catalogue tool call of the agent (services/tool.py)
    client              \* one conversation of the polling client (frontend/app.py)

session_vars == <<chat_sessions, chat_messages, deleted_rows, _background_tasks, req, task, delete_pc, ops>>

component_vars == <<tmdb, out, health, llm, aws, val, tool, client>>

vars == <<chat_sessions, chat_messages, deleted_rows, _background_tasks, req, task, delete_pc, ops,
          tmdb, out, health, llm, aws, val, tool, client>>

\* The component is not in use.
Idle == [pc |-> "idle"]

----------------------------------------------------------------------------
(* Rows and queries *)

ChatMessage(r, role) ==
    [req |-> r, role |-> role, session_id |-> req[r].session_id, created_at |-> ImportTime]

Range(seq) == {seq[i] : i \in 1..Len(seq)}

RowsOf(s) == SelectSeq(chat_messages, LAMBDA m : m.session_id = s)

\* The DELETE without its WHERE clause.
WithoutRows(s) == <<>>

WithoutRowsOf(s) == SelectSeq(chat_messages, LAMBDA m : m.session_id # s)

Bijections(n) == {f \in [1..n -> 1..n] : \A i, j \in 1..n : f[i] = f[j] => i = j}

\* ORDER BY created_at with .first() in place of .all().
OrderByCreatedAt_first(rows) ==
    {SubSeq(p, 1, IF Len(p) > 0 THEN 1 ELSE 0) :
        p \in {q \in {[i \in 1..Len(rows) |-> rows[f[i]]] : f \in Bijections(Len(rows))} :
                  \A i, j \in 1..Len(rows) : i < j => q[i].created_at <= q[j].created_at}}

\* ORDER BY created_at ASC: the rows sorted by created_at; the order of rows
\* with equal created_at is not fixed by the query.
OrderByCreatedAt(rows) ==
    {p \in {[i \in 1..Len(rows) |-> rows[f[i]]] : f \in Bijections(Len(rows))} :
        \A i, j \in 1..Len(rows) : i < j => p[i].created_at <= p[j].created_at}

\* The lists GET /session/{id}/messages can return.
get_session_messages(s) == OrderByCreatedAt(RowsOf(s))

\* _load_history with a filter that matches no row.
_load_history_none(s) == {<<>>}

\* The lists _load_history can return.
_load_history(s) == OrderByCreatedAt(RowsOf(s))

\* GET /session/{id}: 200 when the row exists, 404 otherwise.
get_session_info(s) == IF s \in chat_sessions THEN 200 ELSE 404

----------------------------------------------------------------------------
(* The task registry *)

Done(r) == task[r].st \in {"ok", "failed", "cancelled"}

Launched(r) == task[r].st # "none"

TasksOf(s) == IF s \in DOMAIN _background_tasks THEN _background_tasks[s] ELSE <<>>

get_active_tasks(s) == SelectSeq(TasksOf(s), LAMBDA r : ~Done(r))

get_session_status(s) ==
    [pending |-> Len(get_active_tasks(s)) > 0, task_count |-> Len(get_active_tasks(s))]

\* The value cancel_session_tasks returns: the tasks it signals.
cancel_count(s) == Len(get_active_tasks(s))

\* list.remove that leaves the list as it is.
RemoveNothing(seq, x) == seq

\* list.remove: drops the first occurrence.
RemoveFirst(seq, x) ==
    IF x \notin Range(seq) THEN seq
    ELSE LET i == CHOOSE k \in 1..Len(seq) : seq[k] = x /\ \A j \in 1..(k-1) : seq[j] # x
         IN  SubSeq(seq, 1, i-1) \o SubSeq(seq, i+1, Len(seq))

\* dict.pop that leaves the key with an empty list.
PopLeavesKey(s) == [x \in DOMAIN _background_tasks |-> IF x = s THEN <<>> ELSE _background_tasks[x]]

Pop(s) == [x \in (DOMAIN _background_tasks) \ {s} |-> _background_tasks[x]]

\* task.cancel() on every task that is not done, whatever the list.
CancelEvery(rs) ==
    [r \in Reqs |-> IF ~Done(r) /\ Launched(r)
                    THEN [task[r] EXCEPT !.must_cancel = TRUE]
                    ELSE task[r]]

\* task.cancel() on every task of the list that is not done.
CancelAll(rs) ==
    [r \in Reqs |-> IF r \in rs /\ ~Done(r) /\ Launched(r)
                    THEN [task[r] EXCEPT !.must_cancel = TRUE]
                    ELSE task[r]]

LoopFree == delete_pc.pc = "idle"

----------------------------------------------------------------------------
InitSessions ==
    /\ chat_sessions = {}
    /\ chat_messages = <<>>
    /\ deleted_rows = {}
    /\ _background_tasks = <<>>
    /\ req = [r \in Reqs |-> [session_id |-> NoSession, stream |-> FALSE, pc |-> "new",
                              job |-> "none", memory |-> <<>>, status |-> 0,
                              after |-> {}, last_event |-> "none"]]
    /\ task = [r \in Reqs |-> [st |-> "none", job |-> "none", must_cancel |-> FALSE,
                               callback |-> FALSE, dropped |-> FALSE]]
    /\ delete_pc = [pc |-> "idle", session_id |-> NoSession]
    /\ ops = 0

Init ==
    /\ InitSessions
    /\ tmdb = Idle
    /\ out = Idle
    /\ health = Idle
    /\ llm = Idle
    /\ aws = Idle
    /\ val = Idle
    /\ tool = Idle
    /\ client = Idle

----------------------------------------------------------------------------
(* POST /chat: chat_handler and submit_agent_task *)

\* The request arrives; submit_agent_task calls _build_memory, which
\* dispatches _ensure_session_exists to a worker thread.
chat_handler(r, s, stream) ==
    /\ LoopFree
    /\ req[r].pc = "new"
    /\ \A q \in Reqs : q < r => req[q].pc # "new"
    /\ (\A q \in Reqs : req[q].pc = "new") => s = "s1"
    /\ req' = [req EXCEPT ![r] = [@ EXCEPT !.session_id = s, !.stream = stream,
                                           !.pc = "ensure", !.job = "queued",
                                           !.after = {q \in Reqs \ {r} :
                                                         /\ req[q].session_id = s
                                                         /\ Launched(q) /\ ~Done(q)}]]
    /\ UNCHANGED <<chat_sessions, chat_messages, deleted_rows, _background_tasks, task, delete_pc, ops>>
    /\ UNCHANGED component_vars

\* Worker thread, _ensure_session_exists: the SELECT.
ensure_session_query(r) ==
    /\ req[r].pc = "ensure" /\ req[r].job = "queued"
    /\ req' = [req EXCEPT ![r].job =
                  IF req[r].session_id \in chat_sessions THEN "done" ELSE "started"]
    /\ UNCHANGED <<chat_sessions, chat_messages, deleted_rows, _background_tasks, task, delete_pc, ops>>
    /\ UNCHANGED component_vars

\* Worker thread, _ensure_session_exists: db.add / db.commit.  The id is the
\* primary key: the INSERT fails when another writer created the row since
\* the SELECT.
ensure_session_commit(r) ==
    /\ req[r].pc = "ensure" /\ req[r].job = "started"
    /\ IF req[r].session_id \in chat_sessions
       THEN /\ req' = [req EXCEPT ![r].job = "raised"]
            /\ UNCHANGED chat_sessions
       ELSE /\ chat_sessions' = chat_sessions \cup {req[r].session_id}
            /\ req' = [req EXCEPT ![r].job = "done"]
    /\ UNCHANGED <<chat_messages, deleted_rows, _background_tasks, task, delete_pc, ops>>
    /\ UNCHANGED component_vars

\* _build_memory resumes and dispatches _load_history.
build_memory_load(r) ==
    /\ LoopFree
    /\ req[r].pc = "ensure" /\ req[r].job = "done"
    /\ req' = [req EXCEPT ![r].pc = "load", ![r].job = "queued"]
    /\ UNCHANGED <<chat_sessions, chat_messages, deleted_rows, _background_tasks, task, delete_pc, ops>>
    /\ UNCHANGED component_vars

\* Worker thread, _load_history: the SELECT ... ORDER BY created_at.
load_history_query(r) ==
    /\ req[r].pc = "load" /\ req[r].job = "queued"
    /\ \E h \in _load_history(req[r].session_id) :
          req' = [req EXCEPT ![r].job = "done", ![r].memory = h, ![r].after = {}]
    /\ UNCHANGED <<chat_sessions, chat_messages, deleted_rows, _background_tasks, task, delete_pc, ops>>
    /\ UNCHANGED component_vars

\* submit_agent_task resumes with the Memory and dispatches the save of the
\* user message.
submit_save_user(r) ==
    /\ LoopFree
    /\ req[r].pc = "load" /\ req[r].job = "done"
    /\ req' = [req EXCEPT ![r].pc = "save", ![r].job = "queued"]
    /\ UNCHANGED <<chat_sessions, chat_messages, deleted_rows, _background_tasks, task, delete_pc, ops>>
    /\ UNCHANGED component_vars

\* Worker thread: _save_messages starts.
save_user_start(r) ==
    /\ req[r].pc = "save" /\ req[r].job = "queued"
    /\ req' = [req EXCEPT ![r].job = "started"]
    /\ UNCHANGED <<chat_sessions, chat_messages, deleted_rows, _background_tasks, task, delete_pc, ops>>
    /\ UNCHANGED component_vars

\* save_user_commit without the INSERT.
save_user_commit_lost(r) ==
    /\ req[r].pc = "save" /\ req[r].job = "started"
    /\ req' = [req EXCEPT ![r].job = "done"]
    /\ UNCHANGED <<chat_sessions, chat_messages, deleted_rows, _background_tasks, task, delete_pc, ops>>
    /\ UNCHANGED component_vars

\* Worker thread: _save_messages commits the user row.
save_user_commit(r) ==
    /\ req[r].pc = "save" /\ req[r].job = "started"
    /\ chat_messages' = Append(chat_messages, ChatMessage(r, "user"))
    /\ req' = [req EXCEPT ![r].job = "done"]
    /\ UNCHANGED <<chat_sessions, deleted_rows, _background_tasks, task, delete_pc, ops>>
    /\ UNCHANGED component_vars

\* submit_db_error where _save_messages raises after its commit.
submit_db_error_committed(r) ==
    /\ req[r].pc = "save" /\ req[r].job = "started"
    /\ chat_messages' = Append(chat_messages, ChatMessage(r, "user"))
    /\ req' = [req EXCEPT ![r].job = "raised"]
    /\ UNCHANGED <<chat_sessions, deleted_rows, _background_tasks, task, delete_pc, ops>>
    /\ UNCHANGED component_vars

\* Worker thread: a database helper of submit_agent_task raises
\* (_ensure_session_exists or _save_messages before its commit, _load_history
\* in its SELECT): nothing is committed.
submit_db_error(r) ==
    /\ \/ req[r].pc \in {"ensure", "save"} /\ req[r].job = "started"
       \/ req[r].pc = "load" /\ req[r].job = "queued"
    /\ req' = [req EXCEPT ![r].job = "raised"]
    /\ UNCHANGED <<chat_sessions, chat_messages, deleted_rows, _background_tasks, task, delete_pc, ops>>
    /\ UNCHANGED component_vars

\* submit_agent_task resumes with the exception of the helper (or
\* create_agent raises): no task is created; chat_handler answers 500.
submit_raises(r) ==
    /\ LoopFree
    /\ \/ req[r].pc \in {"ensure", "load", "save"} /\ req[r].job = "raised"
       \/ req[r].pc = "save" /\ req[r].job = "done"
    /\ req' = [req EXCEPT ![r].pc = "resp", ![r].job = "none", ![r].status = 500,
                          ![r].after = {}]
    /\ UNCHANGED <<chat_sessions, chat_messages, deleted_rows, _background_tasks, task, delete_pc, ops>>
    /\ UNCHANGED component_vars

\* submit_launch that waits until the session has no active run.
submit_launch_serialized(r) ==
    /\ LoopFree
    /\ req[r].pc = "save" /\ req[r].job = "done"
    /\ get_active_tasks(req[r].session_id) = <<>>
    /\ task' = [task EXCEPT ![r].st = "running"]
    /\ LET s == req[r].session_id IN
       _background_tasks' =
           [x \in (DOMAIN _background_tasks) \cup {s} |->
               IF x = s THEN Append(TasksOf(s), r) ELSE _background_tasks[x]]
    /\ req' = [req EXCEPT ![r].pc = IF req[r].stream THEN "sse" ELSE "await",
                          ![r].job = "none"]
    /\ UNCHANGED <<chat_sessions, chat_messages, deleted_rows, delete_pc, ops>>
    /\ UNCHANGED component_vars

\* submit_agent_task resumes after the save: create_agent, create_task,
\* add_done_callback, registration; chat_handler then awaits the task or
\* returns the StreamingResponse whose generator awaits shield(task).
submit_launch(r) ==
    /\ LoopFree
    /\ req[r].pc = "save" /\ req[r].job = "done"
    /\ task' = [task EXCEPT ![r].st = "running"]
    /\ LET s == req[r].session_id IN
       _background_tasks' =
           [x \in (DOMAIN _background_tasks) \cup {s} |->
               IF x = s THEN Append(TasksOf(s), r) ELSE _background_tasks[x]]
    /\ req' = [req EXCEPT ![r].pc = IF req[r].stream THEN "sse" ELSE "await",
                          ![r].job = "none"]
    /\ UNCHANGED <<chat_sessions, chat_messages, deleted_rows, delete_pc, ops>>
    /\ UNCHANGED component_vars

----------------------------------------------------------------------------
(* The detached run: _run_agent_task *)

\* agent.run completes; the save of the assistant reply is dispatched.
agent_returns(r) ==
    /\ LoopFree
    /\ task[r].st = "running" /\ ~task[r].must_cancel
    /\ task' = [task EXCEPT ![r].st = "saving", ![r].job = "queued"]
    /\ UNCHANGED <<chat_sessions, chat_messages, deleted_rows, _background_tasks, req, delete_pc, ops>>
    /\ UNCHANGED component_vars

\* agent.run raises: logged and re-raised, the task ends failed.
agent_raises(r) ==
    /\ LoopFree
    /\ task[r].st = "running" /\ ~task[r].must_cancel
    /\ task' = [task EXCEPT ![r].st = "failed", ![r].callback = TRUE]
    /\ UNCHANGED <<chat_sessions, chat_messages, deleted_rows, _background_tasks, req, delete_pc, ops>>
    /\ UNCHANGED component_vars

\* Worker thread: _save_messages of the reply starts (the worker skips a
\* job whose future is already cancelled).
save_reply_start(r) ==
    /\ task[r].st = "saving" /\ task[r].job = "queued" /\ ~task[r].must_cancel
    /\ task' = [task EXCEPT ![r].job = "started"]
    /\ UNCHANGED <<chat_sessions, chat_messages, deleted_rows, _background_tasks, req, delete_pc, ops>>
    /\ UNCHANGED component_vars

\* Worker thread: _save_messages commits the assistant row.  The thread is
\* not interrupted by the cancellation of the task that awaits it.
save_reply_commit(r) ==
    /\ task[r].job = "started"
    /\ chat_messages' = Append(chat_messages, ChatMessage(r, "assistant"))
    /\ task' = [task EXCEPT ![r].job = IF task[r].st = "saving" THEN "done" ELSE "none"]
    /\ UNCHANGED <<chat_sessions, deleted_rows, _background_tasks, req, delete_pc, ops>>
    /\ UNCHANGED component_vars

\* Worker thread: _save_messages of the reply raises.
save_reply_error(r) ==
    /\ task[r].job = "started"
    /\ task' = [task EXCEPT ![r].job = IF task[r].st = "saving" THEN "raised" ELSE "none"]
    /\ UNCHANGED <<chat_sessions, chat_messages, deleted_rows, _background_tasks, req, delete_pc, ops>>
    /\ UNCHANGED component_vars

\* The task resumes after the save and returns the text (or re-raises the
\* exception of the save).
run_agent_task_ends(r) ==
    /\ LoopFree
    /\ task[r].st = "saving" /\ task[r].job \in {"done", "raised"} /\ ~task[r].must_cancel
    /\ task' = [task EXCEPT ![r].st = IF task[r].job = "done" THEN "ok" ELSE "failed",
                            ![r].job = "none", ![r].callback = TRUE]
    /\ UNCHANGED <<chat_sessions, chat_messages, deleted_rows, _background_tasks, req, delete_pc, ops>>
    /\ UNCHANGED component_vars

\* The task is resumed with CancelledError at the await it is suspended in.
run_agent_task_cancelled(r) ==
    /\ LoopFree
    /\ task[r].st \in {"running", "saving"} /\ task[r].must_cancel
    /\ task' = [task EXCEPT ![r].st = "cancelled", ![r].callback = TRUE,
                            ![r].job = IF task[r].job = "started" THEN "started" ELSE "none"]
    /\ UNCHANGED <<chat_sessions, chat_messages, deleted_rows, _background_tasks, req, delete_pc, ops>>
    /\ UNCHANGED component_vars

\* _cleanup_task that drops the whole list of the session.
_cleanup_task_pops(r) ==
    /\ LoopFree
    /\ task[r].callback
    /\ task' = [task EXCEPT ![r].callback = FALSE]
    /\ _background_tasks' = Pop(req[r].session_id)
    /\ UNCHANGED <<chat_sessions, chat_messages, deleted_rows, req, delete_pc, ops>>
    /\ UNCHANGED component_vars

\* The done callback of the task.
_cleanup_task(r) ==
    /\ LoopFree
    /\ task[r].callback
    /\ task' = [task EXCEPT ![r].callback = FALSE]
    /\ LET s == req[r].session_id
           tasks == RemoveFirst(TasksOf(s), r)
       IN  _background_tasks' =
               IF tasks = <<>> THEN Pop(s)
               ELSE [_background_tasks EXCEPT ![s] = tasks]
    /\ UNCHANGED <<chat_sessions, chat_messages, deleted_rows, req, delete_pc, ops>>
    /\ UNCHANGED component_vars

----------------------------------------------------------------------------------------------------------------------------------------
(* The observers of a run *)

\* chat_handler, stream=false: `await task` returns or raises.
await_task_ends(r) ==
    /\ LoopFree
    /\ req[r].pc = "await" /\ Done(r)
    /\ req' = [req EXCEPT ![r].pc = "resp",
                          ![r].status = IF task[r].st = "ok" THEN 200
                                        ELSE IF task[r].st = "failed" THEN 500 ELSE 0]
    /\ UNCHANGED <<chat_sessions, chat_messages, deleted_rows, _background_tasks, task, delete_pc, ops>>
    /\ UNCHANGED component_vars

\* The request context of a stream=false handler is cancelled while it is
\* suspended in `await task`: cancelling a coroutine cancels the task it
\* awaits.
await_task_abandoned(r) ==
    /\ LoopFree
    /\ ops < MaxOps
    /\ req[r].pc = "await"
    /\ req' = [req EXCEPT ![r].pc = "abandoned"]
    /\ task' = CancelAll({r})
    /\ ops' = ops + 1
    /\ UNCHANGED <<chat_sessions, chat_messages, deleted_rows, _background_tasks, delete_pc>>
    /\ UNCHANGED component_vars

\* stream_chat_response: shield(task) returns or raises and the generator
\* runs to its end.  With the text of the run it sends the content events and
\* the {done} event; with an Exception the {error, done} event; with
\* CancelledError (the task was cancelled) it logs and sends nothing.
\* last_event is the last event sent on the response.
stream_chat_response_ends(r) ==
    /\ LoopFree
    /\ req[r].pc = "sse" /\ Done(r)
    /\ req' = [req EXCEPT ![r].pc = "resp", ![r].status = 200,
                          ![r].last_event = CASE task[r].st = "ok" -> "done"
                                              [] task[r].st = "failed" -> "error_done"
                                              [] OTHER -> "none"]
    /\ UNCHANGED <<chat_sessions, chat_messages, deleted_rows, _background_tasks, task, delete_pc, ops>>
    /\ UNCHANGED component_vars

\* stream_chat_response_cancelled with `await task` in place of
\* `await asyncio.shield(task)`.
stream_chat_response_unshielded(r) ==
    /\ LoopFree
    /\ ops < MaxOps
    /\ req[r].pc = "sse"
    /\ req' = [req EXCEPT ![r].pc = "disconnected"]
    /\ task' = CancelAll({r})
    /\ ops' = ops + 1
    /\ UNCHANGED <<chat_sessions, chat_messages, deleted_rows, _background_tasks, delete_pc>>
    /\ UNCHANGED component_vars

\* The client of the SSE response disconnects: the generator is cancelled
\* in `await asyncio.shield(task)`; the shielded task is left alone.
stream_chat_response_cancelled(r) ==
    /\ LoopFree
    /\ ops < MaxOps
    /\ req[r].pc = "sse"
    /\ req' = [req EXCEPT ![r].pc = "disconnected"]
    /\ ops' = ops + 1
    /\ UNCHANGED <<chat_sessions, chat_messages, deleted_rows, _background_tasks, task, delete_pc>>
    /\ UNCHANGED component_vars

----------------------------------------------------------------------------
(* Session endpoints *)

\* The session ids some request has named (a call for another id finds
\* no row and no task).
Known(s) == \E r \in Reqs : req[r].session_id = s

\* POST /session/{id}/cancel.
cancel_session_tasks(s) ==
    /\ LoopFree
    /\ ops < MaxOps
    /\ Known(s)
    /\ task' = CancelAll(Range(TasksOf(s)))
    /\ ops' = ops + 1
    /\ UNCHANGED <<chat_sessions, chat_messages, deleted_rows, _background_tasks, req, delete_pc>>
    /\ UNCHANGED component_vars

\* DELETE /session/{id}/messages.
clear_session_messages(s) ==
    /\ LoopFree
    /\ ops < MaxOps
    /\ Known(s)
    /\ chat_messages' = WithoutRowsOf(s)
    /\ deleted_rows' = deleted_rows \cup Range(RowsOf(s))
    /\ ops' = ops + 1
    /\ UNCHANGED <<chat_sessions, _background_tasks, req, task, delete_pc>>
    /\ UNCHANGED component_vars

\* DELETE /session/{id}: the transaction that deletes the messages and the
\* session row.
delete_session(s) ==
    /\ LoopFree
    /\ ops < MaxOps
    /\ Known(s)
    /\ chat_messages' = WithoutRowsOf(s)
    /\ deleted_rows' = deleted_rows \cup Range(RowsOf(s))
    /\ chat_sessions' = chat_sessions \ {s}
    /\ delete_pc' = [pc |-> "drop", session_id |-> s]
    /\ ops' = ops + 1
    /\ UNCHANGED <<_background_tasks, req, task>>
    /\ UNCHANGED component_vars

\* DELETE /session/{id}: drop_session, after which the handler returns.
drop_session ==
    /\ delete_pc.pc = "drop"
    /\ LET s == delete_pc.session_id IN
       /\ _background_tasks' = Pop(s)
       /\ task' = [r \in Reqs |->
                     IF r \in Range(TasksOf(s)) /\ ~Done(r)
                     THEN [task[r] EXCEPT !.must_cancel = TRUE, !.dropped = TRUE]
                     ELSE task[r]]
    /\ delete_pc' = [pc |-> "idle", session_id |-> NoSession]
    /\ UNCHANGED <<chat_sessions, chat_messages, deleted_rows, req, ops>>
    /\ UNCHANGED component_vars

----------------------------------------------------------------------------
Next ==
    \/ \E r \in Reqs, s \in SessionIds, stream \in BOOLEAN : chat_handler(r, s, stream)
    \/ \E r \in Reqs : ensure_session_query(r)
    \/ \E r \in Reqs : ensure_session_commit(r)
    \/ \E r \in Reqs : build_memory_load(r)
    \/ \E r \in Reqs : load_history_query(r)
    \/ \E r \in Reqs : submit_save_user(r)
    \/ \E r \in Reqs : save_user_start(r)
    \/ \E r \in Reqs : save_user_commit(r)
    \/ \E r \in Reqs : submit_db_error(r)
    \/ \E r \in Reqs : submit_raises(r)
    \/ \E r \in Reqs : submit_launch(r)
    \/ \E r \in Reqs : agent_returns(r)
    \/ \E r \in Reqs : agent_raises(r)
    \/ \E r \in Reqs : save_reply_start(r)
    \/ \E r \in Reqs : save_reply_commit(r)
    \/ \E r \in Reqs : save_reply_error(r)
    \/ \E r \in Reqs : run_agent_task_ends(r)
    \/ \E r \in Reqs : run_agent_task_cancelled(r)
    \/ \E r \in Reqs : _cleanup_task(r)
    \/ \E r \in Reqs : await_task_ends(r)
    \/ \E r \in Reqs : await_task_abandoned(r)
    \/ \E r \in Reqs : stream_chat_response_ends(r)
    \/ \E r \in Reqs : stream_chat_response_cancelled(r)
    \/ \E s \in SessionIds : cancel_session_tasks(s)
    \/ \E s \in SessionIds : clear_session_messages(s)
    \/ \E s \in SessionIds : delete_session(s)
    \/ drop_session

Spec == Init /\ [][Next]_vars

----------------------------------------------------------------------------
(* Properties *)

UserRow(r) == ChatMessage(r, "user")

ReplyRow(r) == ChatMessage(r, "assistant")

Stored == Range(chat_messages)

\* The runs submitted for s that have not completed.
NotCompleted(s) == {r \in Reqs : req[r].session_id = s /\ Launched(r) /\ ~Done(r)}

\* C1: once submit_agent_task has created the task, the user message of the
\* request has been committed, and it is in the table unless a DELETE
\* statement of a handler removed it - whatever the state the run is in
\* (running, succeeded, failed, cancelled).
C1_UserMessageDurable ==
    \A r \in Reqs : Launched(r) => (UserRow(r) \in Stored \/ UserRow(r) \in deleted_rows)

C1_Witness ==
    \E r \in Reqs : task[r].st \in {"failed", "cancelled"} /\ UserRow(r) \in Stored

\* C2: a run that ended cancelled (signalled by cancel_session_tasks or
\* drop_session) or failed has appended no assistant message, and a run that
\* ended successfully has appended one.
C2_ReplyOnlyOnSuccess ==
    \A r \in Reqs :
        /\ (task[r].st \in {"cancelled", "failed"} /\ req[r].pc # "abandoned") =>
               (ReplyRow(r) \notin Stored /\ ReplyRow(r) \notin deleted_rows)
        /\ task[r].st = "ok" => (ReplyRow(r) \in Stored \/ ReplyRow(r) \in deleted_rows)

\* C3: when the request context awaiting a run (stream=false) is cancelled,
\* the run is not signalled for cancellation by that step.
C3_AbandonedAwaitKeepsRun ==
    [][\A r \in Reqs :
          (req[r].pc = "await" /\ req'[r].pc = "abandoned") =>
              task'[r].must_cancel = task[r].must_cancel]_vars

\* C4: the step in which the SSE generator is cancelled by a client
\* disconnect changes neither the tasks (no cancellation is signalled) nor
\* the registry, and a run whose client disconnected and that ended
\* successfully has written its assistant message.
C4_DisconnectKeepsRun ==
    [][/\ \A r \in Reqs :
              (req[r].pc = "sse" /\ req'[r].pc = "disconnected") =>
                  (task' = task /\ _background_tasks' = _background_tasks)
       /\ \A r \in Reqs :
              (req'[r].pc = "disconnected" /\ task'[r].st = "ok") =>
                  (ReplyRow(r)' \in Stored' \/ ReplyRow(r)' \in deleted_rows')]_vars

C4_Witness ==
    \E r \in Reqs :
        req[r].pc = "disconnected" /\ task[r].st = "ok" /\ ReplyRow(r) \in Stored

\* C5: whenever cancel_session_tasks(s) can be called, the number it returns
\* is the number of runs of s that have not completed.
C5_CancelReturnsNotCompleted ==
    \A s \in SessionIds : LoopFree => cancel_count(s) = Cardinality(NotCompleted(s))

\* C6: a run that was running when DELETE /session/{id} dropped its session
\* has no assistant row in the table of the deleted session.
C6_NoReplyAfterDelete ==
    \A r \in Reqs :
        (task[r].dropped /\ req[r].session_id \notin chat_sessions) =>
            ReplyRow(r) \notin Stored

\* A submit_agent_task call for s is between its first await and the
\* creation of its task.
Submitting(s) ==
    \E r \in Reqs : req[r].session_id = s /\ req[r].pc \in {"ensure", "load", "save"}

\* C7: when DELETE /session/{id} returns (no Submit for id being in
\* progress), the tables hold no message and no session row for id
\* (GET /session/{id} answers 404) and every run of id that has not
\* completed has been signalled.
C7_DeleteLeavesNothing ==
    [][\A s \in SessionIds :
          (/\ delete_pc.pc = "drop" /\ delete_pc.session_id = s /\ delete_pc'.pc = "idle"
           /\ ~Submitting(s)) =>
              /\ RowsOf(s)' = <<>>
              /\ get_session_info(s)' = 404
              /\ \A r \in NotCompleted(s)' : task'[r].must_cancel]_vars

\* C8: get_active_tasks(s) is exactly the set of runs submitted for s that
\* have not completed.
C8_ActiveTasksExact ==
    \A s \in SessionIds : LoopFree => Range(get_active_tasks(s)) = NotCompleted(s)

\* C9: for a session with a single run, GET /session/{id}/status reports
\* pending with task_count 1 until the run ends and not pending with
\* task_count 0 afterwards; pending is true exactly when task_count > 0.
C9_StatusFollowsRun ==
    \A s \in SessionIds :
        LoopFree =>
            LET runs == {r \in Reqs : req[r].session_id = s /\ Launched(r)}
                status == get_session_status(s)
            IN  /\ status.pending <=> status.task_count > 0
                /\ Cardinality(runs) = 1 =>
                       \A r \in runs :
                           IF Done(r)
                           THEN ~status.pending /\ status.task_count = 0
                           ELSE status.pending /\ status.task_count = 1

\* C10: every list returned by GET /session/{id}/messages and by the history
\* load of memory hydration is the session's rows in insertion order.
C10_InsertionOrder ==
    \A s \in SessionIds :
        \A l \in get_session_messages(s) \cup _load_history(s) : l = RowsOf(s)

\* C11: in every reachable state the messages of a session, in the order
\* they were inserted, hold no row twice, and every assistant row is preceded
\* by the user row of the run that wrote it.
C11_NoGapNoDuplicate ==
    \A s \in SessionIds :
        LET l == RowsOf(s) IN
        /\ \A i, j \in 1..Len(l) : l[i] = l[j] => i = j
        /\ \A i \in 1..Len(l) :
               l[i].role = "assistant" =>
                   \E j \in 1..(i - 1) : l[j] = [l[i] EXCEPT !.role = "user"]

\* The step of the worker thread that runs the SELECT of _load_history for r.
LoadsHistory(r) ==
    req[r].pc = "load" /\ req[r].job = "queued" /\ req'[r].job = "done"

\* C12 (as stated): a Submit that arrived while a run of its session was
\* active, after the Submit of that run had returned, hydrates a Memory that
\* contains the user message of that run.
C12_SecondSubmitSeesFirst ==
    [][\A r \in Reqs : LoadsHistory(r) =>
          \A q \in req[r].after : UserRow(q) \in Range(req'[r].memory)]_vars

\* C12 (amended): the same, unless a DELETE statement of a handler removed
\* the user message before the history was read.
C12_SecondSubmitSeesFirstUnlessDeleted ==
    [][\A r \in Reqs : LoadsHistory(r) =>
          \A q \in req[r].after :
              UserRow(q) \notin deleted_rows => UserRow(q) \in Range(req'[r].memory)]_vars

C12_Witness ==
    \E r \in Reqs : \E q \in Reqs \ {r} :
        /\ req[r].pc = "load" /\ req[r].job = "done"
        /\ req[q].session_id = req[r].session_id
        /\ Launched(q) /\ ~Done(q)
        /\ UserRow(q) \in Range(req[r].memory)
        /\ ReplyRow(q) \notin Range(req[r].memory)

\* C13: when two Submits race to create the row of an unknown session, the
\* INSERT of the one that finds the row already created is a no-op: its
\* _ensure_session_exists returns normally and the Submit goes on.
C13_InsertRaceIsBenign ==
    [][\A r \in Reqs :
          (/\ req[r].pc = "ensure" /\ req[r].job = "started"
           /\ req[r].session_id \in chat_sessions
           /\ ensure_session_commit(r))
          => req'[r].job = "done"]_vars

\* A step of the Memory hydration of r (_build_memory: _ensure_session_exists,
\* then _load_history).
Hydrates(r) == req[r].pc \in {"ensure", "load"} /\ req'[r] # req[r]

C15_IdempotentRead ==
    \A s \in SessionIds :
        \A a, b \in get_session_messages(s) :
            /\ a = b
            /\ \A i, j \in 1..Len(a) : i < j => a[i].created_at <= a[j].created_at

\* C18: an SSE response whose client stayed connected until the generator
\* ended has a terminal event with done=true as its last event: the plain
\* one when the run succeeded, the one with the error field otherwise
\* (failure or cancellation of the run).
C18_TerminalEvent ==
    \A r \in Reqs :
        (req[r].stream /\ req[r].pc = "resp" /\ Launched(r)) =>
            req[r].last_event = IF task[r].st = "ok" THEN "done" ELSE "error_done"

----------------------------------------------------------------------------
(* services/tool.py: _make_tmdb_request under its tenacity @retry *)

\* settings.HTTP_RETRIES (default), the argument of stop_after_attempt.
HTTP_RETRIES == 3

\* What one client.get + raise_for_status can end with: a 2xx answer, a 404,
\* another error status (HTTPStatusError), a transport error (RequestError).
Upstream == {"200", "404", "500", "ConnectError"}

\* What the upstream would do at each attempt of one call.
Scripts == [1..HTTP_RETRIES -> Upstream]

\* The exceptions retry_if_exception_type(httpx.HTTPError) matches.
HttpxHTTPError == {"HTTPStatusError", "RequestError"}

\* The body of _make_tmdb_request that lets the httpx exception of a 404
\* through.
_make_tmdb_request_unmapped(outcome) ==
    CASE outcome = "200" -> "none"
      [] outcome = "404" -> "HTTPStatusError"
      [] outcome = "500" -> "APIError"
      [] OTHER -> "APIError"

\* The body of _make_tmdb_request: the exception that leaves it ("none" when
\* it returns resp.json()).  The except clauses turn every exception of the
\* try block into NotFoundError (status 404) or APIError.
_make_tmdb_request(outcome) ==
    CASE outcome = "200" -> "none"
      [] outcome = "404" -> "NotFoundError"
      [] outcome = "500" -> "APIError"
      [] OTHER -> "APIError"

InitTmdb ==
    /\ InitSessions
    /\ out = Idle
    /\ health = Idle
    /\ llm = Idle
    /\ aws = Idle
    /\ val = Idle
    /\ tool = Idle
    /\ client = Idle
    /\ \E u \in Scripts :
          tmdb = [pc |-> "attempt", upstream |-> u, attempt_number |-> 1,
                  raised |-> "none", result |-> "none"]

\* tenacity calls the wrapped function: one upstream attempt.
tmdb_attempt ==
    /\ tmdb.pc = "attempt"
    /\ tmdb' = [tmdb EXCEPT !.pc = "retry",
                            !.raised = _make_tmdb_request(tmdb.upstream[tmdb.attempt_number])]
    /\ UNCHANGED session_vars
    /\ UNCHANGED <<out, health, llm, aws, val, tool, client>>

\* tenacity decides on the outcome of the attempt: a return value is
\* returned; an exception the retry predicate does not match is re-raised to
\* the caller; a matching one leads to another attempt, or to RetryError
\* once stop_after_attempt(HTTP_RETRIES) is reached.
tmdb_retry ==
    /\ tmdb.pc = "retry"
    /\ tmdb' =
          IF tmdb.raised = "none"
          THEN [tmdb EXCEPT !.pc = "done", !.result = "returned"]
          ELSE IF tmdb.raised \notin HttpxHTTPError
          THEN [tmdb EXCEPT !.pc = "done", !.result = tmdb.raised]
          ELSE IF tmdb.attempt_number >= HTTP_RETRIES
          THEN [tmdb EXCEPT !.pc = "done", !.result = "RetryError"]
          ELSE [tmdb EXCEPT !.pc = "attempt", !.attempt_number = @ + 1, !.raised = "none"]
    /\ UNCHANGED session_vars
    /\ UNCHANGED <<out, health, llm, aws, val, tool, client>>

NextTmdb ==
    \/ tmdb_attempt
    \/ tmdb_retry

SpecTmdb == InitTmdb /\ [][NextTmdb]_vars

\* C16: a call whose attempts fail with a transport error or an error
\* status other than 404 is attempted again until an attempt succeeds or
\* HTTP_RETRIES attempts were made; APIError is raised to the caller only
\* after HTTP_RETRIES attempts.
C16_RetriedUntilExhausted ==
    (tmdb.pc = "done" /\ tmdb.result = "APIError") => tmdb.attempt_number = HTTP_RETRIES

\* C17: a 404 answer of the upstream ends the call with NotFoundError after
\* that one attempt: no attempt follows a 404, and the call does not end with
\* APIError (or any other outcome).
C17_NotFoundNotRetried ==
    \A k \in 1..HTTP_RETRIES :
        (tmdb.pc # "idle" /\ k <= tmdb.attempt_number /\ tmdb.upstream[k] = "404") =>
            /\ tmdb.attempt_number = k
            /\ k = 1
            /\ tmdb.pc = "done" => tmdb.result = "NotFoundError"

C17_Witness ==
    /\ tmdb.pc = "done"
    /\ tmdb.upstream[1] = "404"
    /\ tmdb.result = "NotFoundError"
    /\ tmdb.attempt_number = 1

----------------------------------------------------------------------------
(* api/routes.py: the answer of POST /chat to one finished run *)

\* Length of the agent's response, in characters.
MaxTextLen == 7

\* chunk_size of stream_chat_response: words per content event.
chunk_size == 3

\* A text is a sequence of characters; " " is the space.
Chars == {"a", " "}

Texts == UNION {[1..n -> Chars] : n \in 0..MaxTextLen}

\* The exceptions a run can end with, as chat_handler tells them apart.
Raises == {"NotFoundError", "APIError", "Exception"}

RECURSIVE lstrip(_), rstrip(_), split(_), join(_), SseContent(_)

lstrip(t) == IF t # <<>> /\ Head(t) = " " THEN lstrip(Tail(t)) ELSE t

rstrip(t) == IF t # <<>> /\ t[Len(t)] = " " THEN rstrip(SubSeq(t, 1, Len(t) - 1)) ELSE t

\* str.strip()
strip(t) == rstrip(lstrip(t))

\* str.split(' '): the list of the (possibly empty) words between the spaces.
split(t) ==
    IF t = <<>> THEN << <<>> >>
    ELSE LET rest == split(Tail(t)) IN
         IF Head(t) = " " THEN << <<>> >> \o rest
         ELSE << <<Head(t)>> \o Head(rest) >> \o Tail(rest)

\* ' '.join(words)
join(words) ==
    IF words = <<>> THEN <<>>
    ELSE IF Len(words) = 1 THEN words[1]
    ELSE words[1] \o <<" ">> \o join(Tail(words))

Min(a, b) == IF a < b THEN a ELSE b

\* The chunk without the space that separates it from the next one.
ChunkUnseparated(words, i) == join(SubSeq(words, i + 1, Min(i + chunk_size, Len(words))))

\* The content of the event for words[i : i + chunk_size] (i counts from 0).
Chunk(words, i) ==
    join(SubSeq(words, i + 1, Min(i + chunk_size, Len(words))))
        \o (IF i + chunk_size < Len(words) THEN <<" ">> ELSE <<>>)

Event(kind, content) == [kind |-> kind, content |-> content]

\* ErrorResponse(error=..., error_code=..., request_id=...).model_dump(): the
\* keys of the dict and the Python type of each value (timestamp is filled by
\* its default_factory and stays a datetime object).
ErrorResponse ==
    [error |-> "str", error_code |-> "str", timestamp |-> "datetime", request_id |-> "str"]

\* json.dumps has an encoding for the value.
JsonSerializable(content) ==
    \A k \in DOMAIN content : content[k] \in {"str", "int", "float", "bool", "NoneType"}

\* JSONResponse(status_code=..., content=...): the body is rendered with
\* json.dumps in the constructor, which raises TypeError for a value it
\* cannot encode.
JSONResponse(status_code, content) ==
    IF JsonSerializable(content)
    THEN [status |-> status_code, keys |-> DOMAIN content, raised |-> "none"]
    ELSE [status |-> 0, keys |-> {}, raised |-> "TypeError"]

\* The handler of RequestValidationError.
validation_exception_handler == JSONResponse(422, ErrorResponse)

\* The handler of Exception.
general_exception_handler == JSONResponse(500, ErrorResponse)

\* The answer to `raise HTTPException(status_code, detail)`.
HTTPException(status_code) == [status |-> status_code, keys |-> {"detail"}]

\* ChatResponse(content=response_text, session_id=...)
ChatResponse(response_text) ==
    [status |-> 200, keys |-> {"content", "session_id", "timestamp"},
     content |-> response_text]

NoAnswer == [status |-> 0, keys |-> {}]

InitOut ==
    /\ InitSessions
    /\ tmdb = Idle
    /\ health = Idle
    /\ llm = Idle
    /\ aws = Idle
    /\ val = Idle
    /\ tool = Idle
    /\ client = Idle
    /\ \E stream \in BOOLEAN :
       \E run \in ({"none"} \X Texts) \cup (Raises \X {<<>>}) :
          out = [pc |-> "run", stream |-> stream, raises |-> run[1], response |-> run[2],
                 final_text |-> <<>>, words |-> <<>>, i |-> 0, events |-> <<>>,
                 answer |-> NoAnswer]

\* _run_agent_task ends: it returns str(response).strip() or raises.
\* chat_handler is awaiting it, or the generator of the StreamingResponse is.
out_run_ends ==
    /\ out.pc = "run"
    /\ out' = [out EXCEPT !.pc = IF out.stream THEN "sse" ELSE "await",
                          !.final_text = IF out.raises = "none" THEN strip(out.response)
                                         ELSE <<>>]
    /\ UNCHANGED session_vars
    /\ UNCHANGED <<tmdb, health, llm, aws, val, tool, client>>

\* chat_handler, stream=false: `await task` returns the text or raises.
out_chat_handler ==
    /\ out.pc = "await"
    /\ out' = [out EXCEPT !.pc = "end",
                          !.answer = CASE out.raises = "none" -> ChatResponse(out.final_text)
                                       [] out.raises = "NotFoundError" -> HTTPException(404)
                                       [] out.raises = "APIError" -> HTTPException(503)
                                       [] OTHER -> HTTPException(500)]
    /\ UNCHANGED session_vars
    /\ UNCHANGED <<tmdb, health, llm, aws, val, tool, client>>

\* stream_chat_response: shield(task) returns the text; `if final_text:`
\* splits it into words.
out_sse_text ==
    /\ out.pc = "sse" /\ out.raises = "none"
    /\ out' = IF out.final_text # <<>>
              THEN [out EXCEPT !.pc = "chunks", !.words = split(out.final_text), !.i = 0]
              ELSE [out EXCEPT !.pc = "terminal"]
    /\ UNCHANGED session_vars
    /\ UNCHANGED <<tmdb, health, llm, aws, val, tool, client>>

\* One iteration of `for i in range(0, len(words), chunk_size)`.
out_sse_chunk ==
    /\ out.pc = "chunks"
    /\ out' = [out EXCEPT !.events = Append(@, Event("content", Chunk(out.words, out.i))),
                          !.i = @ + chunk_size,
                          !.pc = IF out.i + chunk_size < Len(out.words)
                                 THEN "chunks" ELSE "terminal"]
    /\ UNCHANGED session_vars
    /\ UNCHANGED <<tmdb, health, llm, aws, val, tool, client>>

\* The event {session_id, done: true}.
out_sse_done ==
    /\ out.pc = "terminal"
    /\ out' = [out EXCEPT !.pc = "end", !.events = Append(@, Event("done", <<>>))]
    /\ UNCHANGED session_vars
    /\ UNCHANGED <<tmdb, health, llm, aws, val, tool, client>>

\* shield(task) raises an Exception: the event {error, session_id, done: true}.
out_sse_error ==
    /\ out.pc = "sse" /\ out.raises # "none"
    /\ out' = [out EXCEPT !.pc = "end", !.events = Append(@, Event("error_done", <<>>))]
    /\ UNCHANGED session_vars
    /\ UNCHANGED <<tmdb, health, llm, aws, val, tool, client>>

NextOut ==
    \/ out_run_ends
    \/ out_chat_handler
    \/ out_sse_text
    \/ out_sse_chunk
    \/ out_sse_done
    \/ out_sse_error

SpecOut == InitOut /\ [][NextOut]_vars

\* The concatenation of the content fields of the content events.
SseContent(events) ==
    IF events = <<>> THEN <<>>
    ELSE (IF Head(events).kind = "content" THEN Head(events).content ELSE <<>>)
             \o SseContent(Tail(events))

\* C19: when the generator has sent its last event for a run that returned
\* a text, the concatenation of the content fields of its events, in order,
\* is the content the stream=false answer carries for that text.
C19_StreamEqualsContent ==
    (out.pc = "end" /\ out.stream /\ out.raises = "none") =>
        SseContent(out.events) = ChatResponse(out.final_text).content

C19_Witness ==
    /\ out.pc = "end" /\ out.stream /\ out.raises = "none"
    /\ Len(out.events) >= 3
    /\ \E k \in 1..Len(out.words) : out.words[k] = <<>>
    /\ SseContent(out.events) = out.final_text

\* C20: the stream=false answer to a run that ended with an exception is 404
\* for NotFoundError, 503 for APIError and 500 for any other exception, and
\* the body of the 500 has the keys of the body that the handler of the 422
\* validation answer builds (ErrorResponse).
C20_ErrorMapping ==
    (out.pc = "end" /\ ~out.stream /\ out.raises # "none") =>
        /\ out.answer.status = CASE out.raises = "NotFoundError" -> 404
                                  [] out.raises = "APIError" -> 503
                                  [] OTHER -> 500
        /\ out.answer.status = 500 => out.answer.keys = DOMAIN ErrorResponse

----------------------------------------------------------------------------
(* api/main_app.py: GET /health *)

\* What the four probes of one GET /health meet: the SELECT 1 succeeds or
\* raises; an HTTP probe gets status 200, another status, or raises.
Probes ==
    [database : {"ok", "raise"},
     tmdb_api : {"200", "500", "raise"},
     tvmaze_api : {"200", "500", "raise"},
     concentrate_ai : {"200", "500", "raise"}]

Dependencies == {"database", "tmdb_api", "tvmaze_api", "concentrate_ai"}

InitHealth ==
    /\ InitSessions
    /\ tmdb = Idle
    /\ out = Idle
    /\ llm = Idle
    /\ aws = Idle
    /\ val = Idle
    /\ tool = Idle
    /\ client = Idle
    /\ \E p \in Probes :
          health = [pc |-> "database", probes |-> p,
                    components |-> [database |-> "unknown", tmdb_api |-> "unknown",
                                    tvmaze_api |-> "unknown", concentrate_ai |-> "unknown"],
                    overall_status |-> "healthy", answer |-> "none"]

\* engine.connect() / SELECT 1.
health_database ==
    /\ health.pc = "database"
    /\ health' =
          IF health.probes.database = "ok"
          THEN [health EXCEPT !.pc = "tmdb_api", !.components.database = "operational"]
          ELSE [health EXCEPT !.pc = "tmdb_api", !.components.database = "degraded",
                              !.overall_status = "degraded"]
    /\ UNCHANGED <<session_vars, tmdb, out, llm, aws, val, tool, client>>

\* GET {TMDB_BASE_URL}/movie/550.
health_tmdb ==
    /\ health.pc = "tmdb_api"
    /\ health' =
          CASE health.probes.tmdb_api = "200" ->
                   [health EXCEPT !.pc = "tvmaze_api", !.components.tmdb_api = "operational"]
            [] health.probes.tmdb_api = "500" ->
                   [health EXCEPT !.pc = "tvmaze_api", !.components.tmdb_api = "degraded",
                                  !.overall_status = "degraded"]
            [] OTHER ->
                   [health EXCEPT !.pc = "tvmaze_api", !.components.tmdb_api = "unavailable",
                                  !.overall_status = "degraded"]
    /\ UNCHANGED <<session_vars, tmdb, out, llm, aws, val, tool, client>>

\* GET {TVMAZE_BASE_URL}/shows/1.
health_tvmaze ==
    /\ health.pc = "tvmaze_api"
    /\ health' =
          CASE health.probes.tvmaze_api = "200" ->
                   [health EXCEPT !.pc = "concentrate_ai", !.components.tvmaze_api = "operational"]
            [] health.probes.tvmaze_api = "500" ->
                   [health EXCEPT !.pc = "concentrate_ai", !.components.tvmaze_api = "degraded"]
            [] OTHER ->
                   [health EXCEPT !.pc = "concentrate_ai", !.components.tvmaze_api = "unavailable"]
    /\ UNCHANGED <<session_vars, tmdb, out, llm, aws, val, tool, client>>

\* GET of the gateway's /health: any answer counts as operational.
health_concentrate ==
    /\ health.pc = "concentrate_ai"
    /\ health' =
          IF health.probes.concentrate_ai # "raise"
          THEN [health EXCEPT !.pc = "return", !.components.concentrate_ai = "operational"]
          ELSE [health EXCEPT !.pc = "return", !.components.concentrate_ai = "assumed_operational"]
    /\ UNCHANGED <<session_vars, tmdb, out, llm, aws, val, tool, client>>

\* return HealthCheckResponse(status=overall_status, components=components)
health_check ==
    /\ health.pc = "return"
    /\ health' = [health EXCEPT !.pc = "returned", !.answer = health.overall_status]
    /\ UNCHANGED <<session_vars, tmdb, out, llm, aws, val, tool, client>>

NextHealth ==
    \/ health_database
    \/ health_tmdb
    \/ health_tvmaze
    \/ health_concentrate
    \/ health_check

SpecHealth == InitHealth /\ [][NextHealth]_vars

\* C21: the answer of GET /health is healthy only if no dependency is
\* reported degraded or unavailable in the components of that answer.
C21_HealthyOnlyIfAllPass ==
    (health.pc = "returned" /\ health.answer = "healthy") =>
        \A d \in Dependencies : health.components[d] \notin {"degraded", "unavailable"}

----------------------------------------------------------------------------
(* services/concentrate_llm.py: _aiter_stream_text / _iter_stream_text *)

\* Number of SSE events of one streamed answer.
MaxEvents == 2

\* The texts an event or a JSON answer can carry: the empty string (a
\* missing key or a value that is not a string is handled like it), a blank
\* string, a string with text.
NoText == <<>>

Blank == <<" ">>

SomeText == <<"t">>

\* The event types of _StopTypes (response.canceled and response.incomplete
\* are handled like response.completed).
StopTypes == {"response.completed", "response.failed", "error"}

\* The events _aiter_sse_events can yield, as far as the loop tells them apart.
SseEvents ==
    ([type : {"response.output_text.delta", "response.output_text.done",
              "response.content_part.added"},
      text : {NoText, SomeText}])
    \cup [type : StopTypes \cup {"response.in_progress"}, text : {NoText}]

EventScripts == UNION {[1..n -> SseEvents] : n \in 0..MaxEvents}

\* The JSON objects the non-streaming call can return, as far as
\* _extract_text tells them apart.
JsonAnswers ==
    [output_text : {NoText, Blank, SomeText},
     output : {<<>>, <<SomeText>>, <<SomeText, SomeText>>},
     text : {NoText, Blank, SomeText}]

\* str.strip() of a text is not empty.
NotBlank(t) == t \notin {NoText, Blank}

\* str(data) of a dict: never empty.
Repr == <<"{", "}">>

RECURSIVE JoinParts(_)

\* "".join(parts)
JoinParts(parts) == IF parts = <<>> THEN <<>> ELSE Head(parts) \o JoinParts(Tail(parts))

\* _extract_text with `return ""` as its last resort.
_extract_text_or_nothing(data) ==
    IF NotBlank(data.output_text) THEN data.output_text
    ELSE IF data.output # <<>> THEN JoinParts(data.output)
    ELSE IF NotBlank(data.text) THEN data.text
    ELSE NoText

\* _extract_text: output_text, else the joined text blocks of the assistant
\* messages of output, else text, else str(data).
_extract_text(data) ==
    IF NotBlank(data.output_text) THEN data.output_text
    ELSE IF data.output # <<>> THEN JoinParts(data.output)
    ELSE IF NotBlank(data.text) THEN data.text
    ELSE Repr

\* _build_payload(..., stream=True)
Payload == [input |-> "input", stream |-> TRUE]

InitLlm ==
    /\ InitSessions
    /\ tmdb = Idle
    /\ out = Idle
    /\ health = Idle
    /\ aws = Idle
    /\ val = Idle
    /\ tool = Idle
    /\ client = Idle
    /\ \E events \in EventScripts :
       \E data \in JsonAnswers :
       \E status \in {[stream |-> "200", post |-> "200"], [stream |-> "500", post |-> "200"],
                       [stream |-> "200", post |-> "500"]} :
          llm = [pc |-> "open", status |-> status, events |-> events, data |-> data, k |-> 1,
                 saw_any_text |-> FALSE, saw_delta |-> FALSE,
                 posts |-> <<>>, yielded |-> <<>>]

\* client.stream("POST", ...) and resp.raise_for_status().
llm_stream_open ==
    /\ llm.pc = "open"
    /\ llm' = [llm EXCEPT !.posts = Append(@, Payload),
                          !.pc = IF llm.status.stream = "200" THEN "events" ELSE "raised"]
    /\ UNCHANGED <<session_vars, tmdb, out, health, aws, val, tool, client>>

\* One iteration of `async for evt in self._aiter_sse_events(resp)`.
llm_event ==
    /\ llm.pc = "events" /\ llm.k <= Len(llm.events)
    /\ LET evt == llm.events[llm.k] IN
       llm' =
          CASE evt.type = "response.output_text.delta" ->
                   IF evt.text # NoText
                   THEN [llm EXCEPT !.k = @ + 1, !.saw_any_text = TRUE, !.saw_delta = TRUE,
                                    !.yielded = Append(@, evt.text)]
                   ELSE [llm EXCEPT !.k = @ + 1]
            [] evt.type = "response.output_text.done" ->
                   IF evt.text # NoText /\ ~llm.saw_delta
                   THEN [llm EXCEPT !.k = @ + 1, !.saw_any_text = TRUE,
                                    !.yielded = Append(@, evt.text)]
                   ELSE [llm EXCEPT !.k = @ + 1]
            [] evt.type = "response.content_part.added" ->
                   IF evt.text # NoText
                   THEN [llm EXCEPT !.k = @ + 1, !.saw_any_text = TRUE,
                                    !.yielded = Append(@, evt.text)]
                   ELSE [llm EXCEPT !.k = @ + 1]
            [] evt.type \in StopTypes -> [llm EXCEPT !.pc = "after_stream"]
            [] OTHER -> [llm EXCEPT !.k = @ + 1]
    /\ UNCHANGED <<session_vars, tmdb, out, health, aws, val, tool, client>>

\* The event stream ends without a stop event.
llm_stream_exhausted ==
    /\ llm.pc = "events" /\ llm.k > Len(llm.events)
    /\ llm' = [llm EXCEPT !.pc = "after_stream"]
    /\ UNCHANGED <<session_vars, tmdb, out, health, aws, val, tool, client>>

\* `if not saw_any_text:` one non-streaming call with the same payload
\* (_apost_json raises on an error status); its text is yielded if it is not
\* empty.
llm_fallback ==
    /\ llm.pc = "after_stream" /\ ~llm.saw_any_text
    /\ llm' =
          IF llm.status.post # "200"
          THEN [llm EXCEPT !.pc = "raised", !.posts = Append(@, [Payload EXCEPT !.stream = FALSE])]
          ELSE [llm EXCEPT !.pc = "end", !.posts = Append(@, [Payload EXCEPT !.stream = FALSE]),
                           !.yielded = IF _extract_text(llm.data) # NoText
                                       THEN Append(@, _extract_text(llm.data)) ELSE @]
    /\ UNCHANGED <<session_vars, tmdb, out, health, aws, val, tool, client>>

\* Text was yielded from the stream: the generator returns.
llm_return ==
    /\ llm.pc = "after_stream" /\ llm.saw_any_text
    /\ llm' = [llm EXCEPT !.pc = "end"]
    /\ UNCHANGED <<session_vars, tmdb, out, health, aws, val, tool, client>>

NextLlm ==
    \/ llm_stream_open
    \/ llm_event
    \/ llm_stream_exhausted
    \/ llm_fallback
    \/ llm_return

SpecLlm == InitLlm /\ [][NextLlm]_vars

\* The non-streaming calls made so far.
FallbackCalls == SelectSeq(llm.posts, LAMBDA p : ~p.stream)

\* C22: when the event stream has ended (end of stream, a failure event or
\* another stop event) without any text yielded, exactly one non-streaming
\* call with the same payload is made, and when it answers its text is
\* yielded once; when text was yielded from the stream no such call is made;
\* a generator that ends normally has yielded something, and nothing empty.
C22_FallbackOnce ==
    /\ Len(FallbackCalls) <= 1
    /\ llm.pc = "after_stream" => Len(FallbackCalls) = 0
    /\ llm.pc \in {"end", "raised"} /\ Len(FallbackCalls) = 1 =>
          /\ FallbackCalls = << [Payload EXCEPT !.stream = FALSE] >>
          /\ llm.pc = "end" => llm.yielded = << _extract_text(llm.data) >>
          /\ llm.pc = "raised" => llm.yielded = <<>>
    /\ llm.pc = "end" =>
          /\ llm.yielded # <<>>
          /\ \A i \in 1..Len(llm.yielded) : llm.yielded[i] # NoText
          /\ Len(FallbackCalls) = 1 <=> ~llm.saw_any_text
          /\ llm.saw_any_text => Len(llm.yielded) >= 1 /\ Len(FallbackCalls) = 0

C22_Witness ==
    /\ llm.pc = "end"
    /\ llm.k <= Len(llm.events) /\ llm.events[llm.k].type = "response.failed"
    /\ Len(FallbackCalls) = 1
    /\ llm.yielded = <<Repr>>

----------------------------------------------------------------------------
(* services/concentrate_llm.py: AwaitableAsyncStream *)

\* Number of items the wrapped generator produces.
MaxItems == 3

\* Number of times the consumer awaits the stream.
MaxAwaits == 2

\* The items of a generator (responses); none of them is None.
Items == {"x", "y"}

NoItem == "None"

\* default_final()
DefaultFinal == "default"

Generators == UNION {[1..n -> Items] : n \in 0..MaxItems}

InitAws ==
    /\ InitSessions
    /\ tmdb = Idle
    /\ out = Idle
    /\ health = Idle
    /\ llm = Idle
    /\ val = Idle
    /\ tool = Idle
    /\ client = Idle
    /\ \E g \in Generators :
          aws = [pc |-> "open", _agen |-> g, next |-> 1, _last |-> NoItem, _drained |-> FALSE,
                 iterated |-> <<>>, awaited |-> <<>>]

\* `return self._last if self._last is not None else self._default_final()`
FinalOf(last) == IF last # NoItem THEN last ELSE DefaultFinal

\* _drain that leaves self._last as it was.
_drain_forgets(a) ==
    IF a._drained
    THEN [a EXCEPT !.awaited = Append(@, FinalOf(a._last))]
    ELSE LET last == IF a.next <= Len(a._agen) THEN a._agen[Len(a._agen)] ELSE a._last IN
         [a EXCEPT !.next = Len(a._agen) + 1, !._drained = TRUE,
                   !.awaited = Append(@, FinalOf(last))]

\* _drain: the value of `await stream`.  A drained stream answers from
\* _last; otherwise the rest of the generator is consumed and its last item
\* (the last item seen so far if nothing is left) is kept in _last.
_drain(a) ==
    IF a._drained
    THEN [a EXCEPT !.awaited = Append(@, FinalOf(a._last))]
    ELSE LET last == IF a.next <= Len(a._agen) THEN a._agen[Len(a._agen)] ELSE a._last IN
         [a EXCEPT !.next = Len(a._agen) + 1, !._drained = TRUE, !._last = last,
                   !.awaited = Append(@, FinalOf(last))]

\* __anext__: one step of `async for`; StopAsyncIteration when the generator
\* has nothing left.
aws_anext ==
    /\ aws.pc = "open"
    /\ aws' =
          IF aws.next <= Len(aws._agen)
          THEN [aws EXCEPT !.next = @ + 1, !._last = aws._agen[aws.next],
                           !.iterated = Append(@, aws._agen[aws.next])]
          ELSE [aws EXCEPT !._drained = TRUE]
    /\ UNCHANGED <<session_vars, tmdb, out, health, llm, val, tool, client>>

\* __await__
aws_await ==
    /\ aws.pc = "open"
    /\ Len(aws.awaited) < MaxAwaits
    /\ aws' = _drain(aws)
    /\ UNCHANGED <<session_vars, tmdb, out, health, llm, val, tool, client>>

NextAws ==
    \/ aws_anext
    \/ aws_await

SpecAws == InitAws /\ [][NextAws]_vars

\* C23: whatever the mix of iteration steps and awaits, every await returns
\* the last item of the generator (the default final value when it has
\* none), the items handed out by iteration are the first items of the
\* generator, each once and in order, and after an await nothing is left to
\* iterate.
C23_ConsumedOnce ==
    aws.pc = "open" =>
        /\ \A i \in 1..Len(aws.awaited) :
              aws.awaited[i] = IF aws._agen = <<>> THEN DefaultFinal
                               ELSE aws._agen[Len(aws._agen)]
        /\ Len(aws.iterated) <= Len(aws._agen)
        /\ aws.iterated = SubSeq(aws._agen, 1, Len(aws.iterated))
        /\ aws.next <= Len(aws._agen) + 1
        /\ aws.awaited # <<>> => aws.next = Len(aws._agen) + 1

C23_Witness ==
    /\ aws.pc = "open"
    /\ Len(aws._agen) = 3
    /\ Len(aws.iterated) = 1
    /\ aws.awaited = <<aws._agen[3], aws._agen[3]>>

----------------------------------------------------------------------------
(* schemas/chat.py, api/main_app.py: a POST /chat body that fails validation *)

\* max_length of ChatRequest.message.
MaxMessageLength == 2000

\* The bodies of POST /chat, by the lengths of session_id and message.
ChatRequests ==
    [session_id : {0, 1, 2},
     message : {0, 1, MaxMessageLength, MaxMessageLength + 1},
     model : {"NoneType", "str"},
     stream : BOOLEAN]

\* ChatRequest: session_id min_length=1; message min_length=1, max_length=2000.
ChatRequest(body) ==
    /\ body.session_id >= 1
    /\ body.message >= 1
    /\ body.message <= MaxMessageLength

InitVal ==
    /\ InitSessions
    /\ tmdb = Idle
    /\ out = Idle
    /\ health = Idle
    /\ llm = Idle
    /\ aws = Idle
    /\ tool = Idle
    /\ client = Idle
    /\ \E body \in ChatRequests :
          val = [pc |-> "request", body |-> body, raised |-> "none",
                 answer |-> [status |-> 0, keys |-> {}]]

\* The framework builds the ChatRequest argument of chat_handler: it calls
\* the handler with a valid body and raises RequestValidationError otherwise.
val_parse ==
    /\ val.pc = "request"
    /\ val' = IF ChatRequest(val.body)
             THEN [val EXCEPT !.pc = "chat_handler"]
             ELSE [val EXCEPT !.pc = "validation_exception_handler",
                              !.raised = "RequestValidationError"]
    /\ UNCHANGED <<session_vars, tmdb, out, health, llm, aws, tool, client>>

\* validation_exception_handler runs: its JSONResponse is the answer, or the
\* exception of its construction goes to the handler of Exception.
val_validation_exception_handler ==
    /\ val.pc = "validation_exception_handler"
    /\ val' = IF validation_exception_handler.raised = "none"
             THEN [val EXCEPT !.pc = "answered",
                              !.answer = [status |-> validation_exception_handler.status,
                                          keys |-> validation_exception_handler.keys]]
             ELSE [val EXCEPT !.pc = "general_exception_handler",
                              !.raised = validation_exception_handler.raised]
    /\ UNCHANGED <<session_vars, tmdb, out, health, llm, aws, tool, client>>

\* general_exception_handler runs: its JSONResponse is the answer, or the
\* exception of its construction leaves the application.
val_general_exception_handler ==
    /\ val.pc = "general_exception_handler"
    /\ val' = IF general_exception_handler.raised = "none"
             THEN [val EXCEPT !.pc = "answered",
                              !.answer = [status |-> general_exception_handler.status,
                                          keys |-> general_exception_handler.keys]]
             ELSE [val EXCEPT !.pc = "server",
                              !.raised = general_exception_handler.raised]
    /\ UNCHANGED <<session_vars, tmdb, out, health, llm, aws, tool, client>>

\* An exception left the application: the server answers 500 with the plain
\* text "Internal Server Error".
val_server_error ==
    /\ val.pc = "server"
    /\ val' = [val EXCEPT !.pc = "answered", !.answer = [status |-> 500, keys |-> {}]]
    /\ UNCHANGED <<session_vars, tmdb, out, health, llm, aws, tool, client>>

NextVal ==
    \/ val_parse
    \/ val_validation_exception_handler
    \/ val_general_exception_handler
    \/ val_server_error

SpecVal == InitVal /\ [][NextVal]_vars

\* C24: a POST /chat body with an empty session_id, an empty message or a
\* message of more than 2000 characters never reaches chat_handler (so no
\* session row, message or task comes of it) and is answered with 422.
C24_InvalidRejected ==
    (val.pc # "idle" /\ ~ChatRequest(val.body)) =>
        /\ val.pc # "chat_handler"
        /\ val.pc = "answered" => val.answer.status = 422

----------------------------------------------------------------------------
(* Properties of the session endpoints and of the runs (continued) *)

\* The row count returned by the DELETE statement of clear_session_messages:
\* the `deleted` of its answer.
clear_deleted(s) == Len(RowsOf(s))

\* C25: DELETE /session/{id}/messages leaves the session without messages,
\* answers with the number of messages the session had, and changes neither
\* the session rows, nor the messages of any other session, nor the task
\* registry or the tasks.
C25_ClearFrame ==
    [][\A s \in SessionIds :
          clear_session_messages(s) =>
              /\ SelectSeq(chat_messages', LAMBDA m : m.session_id = s) = <<>>
              /\ Len(chat_messages) - Len(chat_messages') = clear_deleted(s)
              /\ \A x \in SessionIds \ {s} :
                    SelectSeq(chat_messages', LAMBDA m : m.session_id = x) = RowsOf(x)
              /\ chat_sessions' = chat_sessions
              /\ _background_tasks' = _background_tasks
              /\ task' = task]_vars

C25_Witness ==
    \E s \in SessionIds : \E x \in SessionIds \ {s} :
        /\ \E m \in deleted_rows : m.session_id = s
        /\ RowsOf(s) = <<>>
        /\ s \in chat_sessions
        /\ TasksOf(s) # <<>>
        /\ RowsOf(x) # <<>>

\* The sessions with the clients the frontend is: every POST /chat has
\* stream=false and stays connected; the requests name any session and every
\* control operation can be called.
NextPolled ==
    \/ \E r \in Reqs, s \in SessionIds : chat_handler(r, s, FALSE)
    \/ \E r \in Reqs : ensure_session_query(r)
    \/ \E r \in Reqs : ensure_session_commit(r)
    \/ \E r \in Reqs : build_memory_load(r)
    \/ \E r \in Reqs : load_history_query(r)
    \/ \E r \in Reqs : submit_save_user(r)
    \/ \E r \in Reqs : save_user_start(r)
    \/ \E r \in Reqs : save_user_commit(r)
    \/ \E r \in Reqs : submit_db_error(r)
    \/ \E r \in Reqs : submit_raises(r)
    \/ \E r \in Reqs : submit_launch(r)
    \/ \E r \in Reqs : agent_returns(r)
    \/ \E r \in Reqs : agent_raises(r)
    \/ \E r \in Reqs : save_reply_start(r)
    \/ \E r \in Reqs : save_reply_commit(r)
    \/ \E r \in Reqs : save_reply_error(r)
    \/ \E r \in Reqs : run_agent_task_ends(r)
    \/ \E r \in Reqs : run_agent_task_cancelled(r)
    \/ \E r \in Reqs : _cleanup_task(r)
    \/ \E r \in Reqs : await_task_ends(r)
    \/ \E s \in SessionIds : cancel_session_tasks(s)
    \/ \E s \in SessionIds : clear_session_messages(s)
    \/ \E s \in SessionIds : delete_session(s)
    \/ drop_session

SpecPolled == Init /\ [][NextPolled]_vars

\* The runs of one session with non-streaming clients that stay connected:
\* the requests all name "s1", and the control operations are the
\* cancellation and the deletion of the session.
NextRuns ==
    \/ \E r \in Reqs : chat_handler(r, "s1", FALSE)
    \/ \E r \in Reqs : ensure_session_query(r)
    \/ \E r \in Reqs : ensure_session_commit(r)
    \/ \E r \in Reqs : build_memory_load(r)
    \/ \E r \in Reqs : load_history_query(r)
    \/ \E r \in Reqs : submit_save_user(r)
    \/ \E r \in Reqs : save_user_start(r)
    \/ \E r \in Reqs : save_user_commit(r)
    \/ \E r \in Reqs : submit_db_error(r)
    \/ \E r \in Reqs : submit_raises(r)
    \/ \E r \in Reqs : submit_launch(r)
    \/ \E r \in Reqs : agent_returns(r)
    \/ \E r \in Reqs : agent_raises(r)
    \/ \E r \in Reqs : save_reply_start(r)
    \/ \E r \in Reqs : save_reply_commit(r)
    \/ \E r \in Reqs : save_reply_error(r)
    \/ \E r \in Reqs : run_agent_task_ends(r)
    \/ \E r \in Reqs : run_agent_task_cancelled(r)
    \/ \E r \in Reqs : _cleanup_task(r)
    \/ \E r \in Reqs : await_task_ends(r)
    \/ cancel_session_tasks("s1")
    \/ delete_session("s1")
    \/ drop_session

\* The event loop runs every callback it has scheduled (the done callback
\* of a task, the rest of the synchronous delete_session handler).
SpecRuns ==
    /\ Init
    /\ [][NextRuns]_vars
    /\ \A r \in Reqs : WF_vars(_cleanup_task(r))
    /\ WF_vars(drop_session)

\* r is in the task list of its session.
Listed(r) == r \in Range(TasksOf(req[r].session_id))

\* C26: every run that has ended (success, cancellation or failure) is
\* eventually out of the task list of its session; and a run is not out of
\* the reported active runs as a successful run before its assistant message
\* was committed.
C26_RemovedAfterEnd ==
    /\ \A r \in Reqs : (Done(r) /\ Listed(r)) ~> ~Listed(r)
    /\ [](\A r \in Reqs :
            (task[r].st = "ok" /\ r \notin Range(get_active_tasks(req[r].session_id))) =>
                (ReplyRow(r) \in Stored \/ ReplyRow(r) \in deleted_rows))

C26_Witness ==
    \E r \in Reqs :
        /\ task[r].st = "ok" /\ ~task[r].callback
        /\ ~Listed(r)
        /\ ReplyRow(r) \in Stored
        /\ \E q \in Reqs \ {r} : task[q].st = "cancelled" /\ ~task[q].callback /\ ~Listed(q)

\* C28: Submits on one session are not serialized.  A Submit whose user
\* message is saved can launch its run whatever the other runs of the session
\* do; the launch adds one active run to the session (a second run makes
\* task_count 2) and leaves the other runs and their Memory as they are.
C28_SubmitsNotSerialized ==
    /\ [](\A r \in Reqs :
            (LoopFree /\ req[r].pc = "save" /\ req[r].job = "done") =>
                ENABLED submit_launch(r))
    /\ [][\A r \in Reqs :
            submit_launch(r) =>
                /\ Len(SelectSeq(_background_tasks'[req[r].session_id],
                                 LAMBDA q : task'[q].st \notin {"ok", "failed", "cancelled"}))
                      = get_session_status(req[r].session_id).task_count + 1
                /\ \A q \in Reqs \ {r} :
                      req'[q].memory = req[q].memory /\ task'[q] = task[q]]_vars

C28_Witness ==
    \E s \in SessionIds :
        /\ get_session_status(s).task_count = 2
        /\ \A r \in Reqs : req[r].session_id = s /\ task[r].st = "running"
        /\ req[1].memory # req[2].memory

\* C29: a Submit that was suspended before the registration of its task
\* while DELETE /session/{id} deleted the rows of its session (the session
\* row it had made sure of is gone) has, once the delete has returned, written
\* no message for the session, and a run it has launched is signalled.
C29_NoWriteAfterDelete ==
    \A r \in Reqs :
        (/\ LoopFree
         /\ req[r].session_id # NoSession
         /\ req[r].session_id \notin chat_sessions
         /\ (req[r].pc \in {"load", "save"} \/ Launched(r))) =>
            /\ UserRow(r) \notin Stored
            /\ (Launched(r) /\ ~Done(r)) => task[r].must_cancel

\* C30: a stream=false chat_handler whose run ended cancelled (signalled by
\* cancel_session_tasks or drop_session while the handler awaited it) has
\* answered with a status of its error mapping: 404, 503 or 500.
C30_CancelledRunIsMapped ==
    \A r \in Reqs :
        (req[r].pc = "resp" /\ ~req[r].stream /\ task[r].st = "cancelled") =>
            req[r].status \in {404, 503, 500}

\* The step in which submit_agent_task raises to chat_handler.
SubmitFails(r) == req[r].pc \in {"ensure", "load", "save"} /\ req'[r].pc = "resp"

\* The failure came after the save of the user message (create_agent raised).
AfterSave(r) == req[r].pc = "save" /\ req[r].job = "done"

\* A request whose Submit raised: it has answered and has no task.
SubmitFailed(r) == req[r].pc = "resp" /\ ~Launched(r)

\* C31 (as stated): when submit_agent_task raises before launching the run,
\* the registry and the tasks are unchanged, no assistant message of the
\* request is ever written, and the user message is in the message table
\* exactly when the failure came after its save.
C31_FailedSubmitLeavesNoRun ==
    /\ [](\A r \in Reqs : SubmitFailed(r) =>
            /\ \A s \in SessionIds : r \notin Range(TasksOf(s))
            /\ ReplyRow(r) \notin Stored \cup deleted_rows)
    /\ [][\A r \in Reqs : SubmitFails(r) =>
            /\ _background_tasks' = _background_tasks
            /\ task' = task
            /\ UserRow(r) \in Range(chat_messages') <=> AfterSave(r)]_vars

\* C31 (amended): the same, where the user message was committed exactly
\* when the failure came after its save; a clear or a delete of the session
\* handled between the commit and the failure has removed it again.
C31_FailedSubmitLeavesNoRunUnlessDeleted ==
    /\ [](\A r \in Reqs : SubmitFailed(r) =>
            /\ \A s \in SessionIds : r \notin Range(TasksOf(s))
            /\ ReplyRow(r) \notin Stored \cup deleted_rows)
    /\ [][\A r \in Reqs : SubmitFails(r) =>
            /\ _background_tasks' = _background_tasks
            /\ task' = task
            /\ UserRow(r) \in Range(chat_messages') \cup deleted_rows' <=> AfterSave(r)]_vars

C31_Witness ==
    \E r \in Reqs : \E q \in Reqs \ {r} :
        /\ SubmitFailed(r) /\ UserRow(r) \in Stored
        /\ SubmitFailed(q) /\ UserRow(q) \notin Stored \cup deleted_rows

\* drop_session is about to pop the list r is in.
Dropping(r) == delete_pc.pc = "drop" /\ delete_pc.session_id = req[r].session_id

\* C32: a registered run that has not ended stays in the list of its session
\* and in get_active_tasks through every step that does not end it, the done
\* callbacks of other runs of the session (dropped before it was registered)
\* included; only a drop_session of its session takes it out.
C32_CallbackRemovesOnlyItsRun ==
    [][\A r \in Reqs :
          (Listed(r) /\ ~Done(r) /\ ~Dropping(r)) =>
              /\ Listed(r)'
              /\ ~Done(r)' => (r \in Range(get_active_tasks(req[r].session_id)))']_vars

\* The done callback of a dropped run is pending while a later run of the
\* session is registered and active.
C32_Witness ==
    \E r \in Reqs : \E q \in Reqs \ {r} :
        /\ req[q].session_id = req[r].session_id
        /\ task[q].dropped /\ task[q].callback
        /\ Listed(r) /\ ~Done(r)

\* Every run submitted for s has ended and its done callback has run.
AllCleanedUp(s) ==
    \A r \in Reqs : (req[r].session_id = s /\ Launched(r)) => (Done(r) /\ ~task[r].callback)

\* C33: the registry holds no empty list, every task of the list of a
\* session was submitted for that session, and a session whose runs have all
\* ended and run their done callback has no entry in the registry.
C33_RegistryTidy ==
    /\ \A s \in DOMAIN _background_tasks :
          /\ _background_tasks[s] # <<>>
          /\ \A r \in Range(_background_tasks[s]) : req[r].session_id = s /\ Launched(r)
    /\ \A s \in SessionIds : AllCleanedUp(s) => s \notin DOMAIN _background_tasks

C33_Witness ==
    \E s \in SessionIds : \E x \in SessionIds \ {s} :
        /\ \E r \in Reqs : req[r].session_id = s /\ Launched(r)
        /\ AllCleanedUp(s)
        /\ s \notin DOMAIN _background_tasks
        /\ x \in DOMAIN _background_tasks

\* C34: cancel_session_tasks(s) and drop_session(s) leave the tasks of the
\* requests of every other session and the lists of every other session as
\* they are, and leave the message and session tables as they are;
\* cancel_session_tasks leaves the whole registry as it is.
C34_CancelAndDropFrame ==
    [][\A s \in SessionIds :
          /\ cancel_session_tasks(s) =>
                /\ _background_tasks' = _background_tasks
                /\ chat_messages' = chat_messages
                /\ chat_sessions' = chat_sessions
                /\ \A r \in Reqs : req[r].session_id # s => task'[r] = task[r]
          /\ (drop_session /\ delete_pc.session_id = s) =>
                /\ \A x \in SessionIds \ {s} : TasksOf(x)' = TasksOf(x)
                /\ chat_messages' = chat_messages
                /\ chat_sessions' = chat_sessions
                /\ \A r \in Reqs : req[r].session_id # s => task'[r] = task[r]]_vars

\* A run was dropped with its session while a run of another session is
\* registered and active, not signalled.
C34_Witness ==
    \E r \in Reqs : \E q \in Reqs \ {r} :
        /\ task[r].dropped
        /\ req[q].session_id # req[r].session_id
        /\ Listed(q) /\ ~Done(q) /\ ~task[q].must_cancel

----------------------------------------------------------------------------
(* services/tool.py: the catalogue tools, each under its own @retry *)

\* The functions exported to the agent as FunctionTools.
Tools == {"unified_search", "get_detailed_info", "get_trending_media",
          "get_popular_media", "get_top_rated_media", "get_upcoming",
          "get_airing_today", "get_on_the_air", "get_similar",
          "get_recommendations", "discover_with_filters", "find_by_id"}

\* The body of a tool around its call of _make_tmdb_request: the exception
\* that leaves it ("none" when it returns a result), given what the call
\* ended with.  unified_search and find_by_id answer a NotFoundError with an
\* empty result; get_detailed_info re-raises it; find_by_id has no other
\* except clause; every other tool turns any Exception into APIError.
ToolBody(name, request) ==
    CASE request = "returned" -> "none"
      [] name \in {"unified_search", "find_by_id"} /\ request = "NotFoundError" -> "none"
      [] name = "find_by_id" -> request
      [] name = "get_detailed_info" /\ request = "NotFoundError" -> "NotFoundError"
      [] OTHER -> "APIError"

InitTool ==
    /\ InitSessions
    /\ tmdb = Idle
    /\ out = Idle
    /\ health = Idle
    /\ llm = Idle
    /\ aws = Idle
    /\ val = Idle
    /\ client = Idle
    /\ \E name \in Tools, u \in Scripts :
          tool = [pc |-> "call", name |-> name, upstream |-> u, attempt_number |-> 1,
                  raised |-> "none", result |-> "none"]

\* tenacity calls the tool, which calls _make_tmdb_request.
tool_request ==
    /\ tool.pc = "call"
    /\ tmdb = Idle
    /\ tool' = [tool EXCEPT !.pc = "request"]
    /\ tmdb' = [pc |-> "attempt", upstream |-> tool.upstream, attempt_number |-> 1,
                raised |-> "none", result |-> "none"]
    /\ UNCHANGED session_vars
    /\ UNCHANGED <<out, health, llm, aws, val, client>>

\* The request has ended; the tool returns or raises, and the tenacity
\* wrapper of the tool decides as that of the request does.
tool_retry ==
    /\ tool.pc = "request"
    /\ tmdb.pc = "done"
    /\ LET raised == ToolBody(tool.name, tmdb.result) IN
       tool' =
          IF raised = "none"
          THEN [tool EXCEPT !.pc = "done", !.raised = raised, !.result = "returned"]
          ELSE IF raised \notin HttpxHTTPError
          THEN [tool EXCEPT !.pc = "done", !.raised = raised, !.result = raised]
          ELSE IF tool.attempt_number >= HTTP_RETRIES
          THEN [tool EXCEPT !.pc = "done", !.raised = raised, !.result = "RetryError"]
          ELSE [tool EXCEPT !.pc = "call", !.attempt_number = @ + 1]
    /\ tmdb' = Idle
    /\ UNCHANGED session_vars
    /\ UNCHANGED <<out, health, llm, aws, val, client>>

NextTool ==
    \/ tool_request
    \/ tmdb_attempt
    \/ tmdb_retry
    \/ tool_retry

SpecTool == InitTool /\ [][NextTool]_vars

\* C27: whatever the catalogue tool, a call whose upstream request was
\* answered 404 ends with NotFoundError: not with APIError and not with a
\* returned result.
C27_NotFoundFromEveryTool ==
    (tool.pc = "done" /\ tool.upstream[1] = "404") => tool.result = "NotFoundError"

----------------------------------------------------------------------------
(* frontend/app.py: the polling client of one conversation *)

\* The turns of the conversation.
MaxTurns == 2

\* _AGENT_TIMEOUT_SECONDS.
_AGENT_TIMEOUT_SECONDS == 90

\* @st.fragment(run_every=3): the seconds between two polls.
run_every == 3

Turns == 1..MaxTurns

\* A message is <<role, turn>>; turn 0 is the timeout text, which exists in
\* the local list only.
UserMsg(k) == <<"user", k>>

AssistantMsg(k) == <<"assistant", k>>

timeout_msg == <<"assistant", 0>>

\* The user is waiting for the assistant: the last local message is a user
\* message.
waiting == client.local # <<>> /\ client.local[Len(client.local)][1] = "user"

\* The detection of _poll_for_updates: the stored list is longer than the
\* local one.
ReplyArrived(db_msgs, messages) == Len(db_msgs) > Len(messages)

InitClient ==
    /\ InitSessions
    /\ tmdb = Idle
    /\ out = Idle
    /\ health = Idle
    /\ llm = Idle
    /\ aws = Idle
    /\ val = Idle
    /\ tool = Idle
    /\ client = [pc |-> "run", local |-> <<>>, db |-> <<>>,
                 srv |-> [k \in Turns |-> "none"],
                 turn |-> 0, elapsed |-> 0, cancels |-> 0]

\* The prompt submission block: the prompt is appended to the local list,
\* the wait timer is started and POST /chat is fired in a thread.  The
\* input is disabled while waiting.
client_submit ==
    /\ client.pc = "run"
    /\ ~waiting
    /\ client.turn < MaxTurns
    /\ LET k == client.turn + 1 IN
       client' = [client EXCEPT !.turn = k,
                                !.local = Append(@, UserMsg(k)),
                                !.srv[k] = "fired",
                                !.elapsed = 0]
    /\ UNCHANGED session_vars
    /\ UNCHANGED <<tmdb, out, health, llm, aws, val, tool>>

\* Backend, submit_agent_task of turn k: the user message is saved and the
\* run is launched.
client_backend_submit(k) ==
    /\ client.pc = "run"
    /\ client.srv[k] = "fired"
    /\ client' = [client EXCEPT !.srv[k] = "running",
                                !.db = Append(@, UserMsg(k))]
    /\ UNCHANGED session_vars
    /\ UNCHANGED <<tmdb, out, health, llm, aws, val, tool>>

\* Backend, _run_agent_task of turn k: the reply is committed ("saving" is
\* a cancelled run whose save was under way in its worker thread).
client_backend_reply(k) ==
    /\ client.pc = "run"
    /\ client.srv[k] \in {"running", "saving"}
    /\ client' = [client EXCEPT !.srv[k] = IF @ = "running" THEN "ok" ELSE "cancelled",
                                !.db = Append(@, AssistantMsg(k))]
    /\ UNCHANGED session_vars
    /\ UNCHANGED <<tmdb, out, health, llm, aws, val, tool>>

\* Backend, cancel_session_tasks: every active run of the session is
\* cancelled; one whose save is under way still commits its reply.
BackendCancel(srv) ==
    {c \in [Turns -> {"none", "fired", "running", "saving", "ok", "cancelled"}] :
        \A k \in Turns : IF srv[k] = "running" THEN c[k] \in {"cancelled", "saving"}
                         ELSE c[k] = srv[k]}

\* One run of the fragment while the user is waiting: the stored messages
\* are fetched; if they are more than the local ones they replace them; else,
\* once the budget is used up, the run is cancelled and the timeout text is
\* appended; else the wait goes on until the next run, run_every seconds
\* later.
_poll_for_updates ==
    /\ client.pc = "run"
    /\ waiting
    /\ LET db_msgs == client.db IN
       IF ReplyArrived(db_msgs, client.local)
       THEN client' = [client EXCEPT !.local = db_msgs, !.elapsed = 0]
       ELSE IF client.elapsed >= _AGENT_TIMEOUT_SECONDS
       THEN \E c \in BackendCancel(client.srv) :
               client' = [client EXCEPT !.srv = c,
                                        !.cancels = @ + 1,
                                        !.local = Append(@, timeout_msg),
                                        !.elapsed = 0]
       ELSE client' = [client EXCEPT !.elapsed = @ + run_every]
    /\ UNCHANGED session_vars
    /\ UNCHANGED <<tmdb, out, health, llm, aws, val, tool>>

NextClient ==
    \/ client_submit
    \/ \E k \in Turns : client_backend_submit(k)
    \/ \E k \in Turns : client_backend_reply(k)
    \/ _poll_for_updates

SpecClient == InitClient /\ [][NextClient]_vars

\* C35: a poll made while the reply to the pending user turn is stored and
\* the budget is not used up replaces the local list with the stored one,
\* ends the wait and issues no cancel, in every turn of the conversation.
C35_ReplyDetectedByNextPoll ==
    [][(/\ _poll_for_updates
        /\ AssistantMsg(client.turn) \in Range(client.db)
        /\ client.elapsed < _AGENT_TIMEOUT_SECONDS) =>
            /\ client'.local = client.db
            /\ client'.cancels = client.cancels
            /\ ~waiting']_vars
====
